---- MODULE Spec2Model ----
(***************************************************************************)
(* A model of android_runner_data: the two source adapters, the metrics    *)
(* engine of BaseEnergyDataSource and the batch loader load_experiments.   *)
(*                                                                         *)
(* Numbers.  pandas works on float64 and int64; the model works on exact   *)
(* numbers of the form (i * INAT_MS + n) / d, where INAT_MS stands for the *)
(* integer -9223372036855, the value numpy gives NaT.astype('int64')       *)
(* floor-divided by 10^6.  It does not fit a model integer, so it is kept  *)
(* as a symbol with an integer coefficient i.  Floating-point rounding is  *)
(* not modelled.  Every cell and every metric is a record                  *)
(* [k, i, n, d, s]: k = "num" a number, "nan" a float NaN or a missing     *)
(* cell, "str" a string that is no number (s its text when it is written   *)
(* as a date-time, <<>> otherwise), "nat" a NaT, "none" Python's None.     *)
(***************************************************************************)
EXTENDS Integers, Sequences, FiniteSets, TLC

VARIABLES
    given,        \* RecSpec: the dataset a further subclass's _load_data_impl leaves
    rec,          \* RecSpec: the record (the object's fields)
    rpc,          \* RecSpec: "new" | "loaded" | "raised"
    rexc,         \* RecSpec: the exception that escaped load_data, or "none"
    experiments,  \* Spec: the argument of load_experiments
    fs,           \* both: the file system, a function from paths to nodes
    idx,          \* Spec: index of the entry the outer loop is at
    sub,          \* Spec: index into the listing of the global root, 0 outside
    sources,      \* Spec: the local list of load_experiments
    attempts,     \* Spec: history of the load attempts made, in order
    pc,           \* Spec: "loop" | "returned" | "raised"
    exc           \* Spec: the exception that escaped load_experiments

vars == <<given, rec, rpc, rexc, experiments, fs, idx, sub, sources, attempts, pc, exc>>

----------------------------------------------------------------------------
(* Bounds of the model. *)

\* Rows of a CSV file or dataset.
MaxRows == 3
\* Entries of the experiments list.
MaxEntries == 2

----------------------------------------------------------------------------
(* Exact numbers. *)

Abs(x) == IF x < 0 THEN -x ELSE x

RECURSIVE GCD(_, _)
GCD(a, b) == IF b = 0 THEN a ELSE GCD(b, a % b)

\* (i * INAT_MS + n) / d in lowest terms, d > 0.
Num(i, n, d) ==
    LET g0 == GCD(GCD(Abs(i), Abs(n)), Abs(d))
        g  == IF d < 0 THEN -g0 ELSE g0
    IN  [k |-> "num", i |-> i \div g, n |-> n \div g, d |-> d \div g, s |-> <<>>]

Int2Num(n) == Num(0, n, 1)
NaN == [k |-> "nan", i |-> 0, n |-> 0, d |-> 1, s |-> <<>>]
NaT == [k |-> "nat", i |-> 0, n |-> 0, d |-> 1, s |-> <<>>]
None == [k |-> "none", i |-> 0, n |-> 0, d |-> 1, s |-> <<>>]
\* A string that is no number: Str(<<>>) is "abc", Str(<<Y, M, D, h, m, s>>)
\* the text "Y-M-D h:m:s".
Str(text) == [k |-> "str", i |-> 0, n |-> 0, d |-> 1, s |-> text]
\* The integer -9223372036855.
INAT_MS == Num(1, 0, 1)

IsNum(x) == x.k = "num"

NAdd(a, b) == Num(a.i * b.d + b.i * a.d, a.n * b.d + b.n * a.d, a.d * b.d)
NSub(a, b) == Num(a.i * b.d - b.i * a.d, a.n * b.d - b.n * a.d, a.d * b.d)
\* The product; one factor at least is free of INAT_MS.
NMul(a, b) ==
    LET g1 == GCD(GCD(Abs(a.i), Abs(a.n)), b.d)
        g2 == GCD(GCD(Abs(b.i), Abs(b.n)), a.d)
        ai == a.i \div g1  an == a.n \div g1  bd == b.d \div g1
        bi == b.i \div g2  bn == b.n \div g2  ad == a.d \div g2
    IN  Num(ai * bn + an * bi, an * bn, ad * bd)
\* a / m for an integer m > 0.
NDivInt(a, m) ==
    LET g == GCD(GCD(Abs(a.i), Abs(a.n)), m)
    IN  Num(a.i \div g, a.n \div g, a.d * (m \div g))
NMulInt(a, m) == NMul(a, Int2Num(m))
\* a < b; INAT_MS is below every number of the model.
NLess(a, b) ==
    LET x == NSub(a, b)
    IN  IF x.i # 0 THEN x.i > 0 ELSE x.n < 0

\* float arithmetic on cells: NaN propagates.
FDivInt(x, m) == IF IsNum(x) THEN NDivInt(x, m) ELSE NaN
FMul(x, y) == IF IsNum(x) /\ IsNum(y) THEN NMul(x, y) ELSE NaN

RECURSIVE NSum(_)
NSum(s) == IF s = <<>> THEN Int2Num(0) ELSE NAdd(Head(s), NSum(Tail(s)))

RECURSIVE NMin(_)
NMin(s) ==
    IF Len(s) = 1 THEN s[1]
    ELSE LET m == NMin(Tail(s)) IN IF NLess(m, s[1]) THEN m ELSE s[1]

RECURSIVE NMax(_)
NMax(s) ==
    IF Len(s) = 1 THEN s[1]
    ELSE LET m == NMax(Tail(s)) IN IF NLess(s[1], m) THEN m ELSE s[1]

MapSeq(f(_), s) == [j \in 1..Len(s) |-> f(s[j])]

----------------------------------------------------------------------------
(* pandas conversions, cell by cell. *)

\* pd.to_numeric(column, errors="coerce"): what is no number becomes NaN.
to_numeric(c) == IF IsNum(c) THEN c ELSE NaN

\* pd.to_datetime(column, unit="ms", errors="coerce"): a number of
\* milliseconds inside the datetime64[ns] range is that instant (kept here
\* as its milliseconds since the epoch); every other cell, a number
\* outside the range (INAT_MS) included, is NaT.  Every integer of the
\* model lies inside the range.
to_datetime_ms(c) == IF IsNum(c) /\ c.i = 0 THEN c ELSE NaT

\* Series.astype('int64') // 1_000_000 on datetime64[ns]: the whole
\* milliseconds of an instant, and INAT_MS for a NaT.
astype_int64_ms(t) == IF t.k = "nat" THEN INAT_MS ELSE Int2Num(t.n \div t.d)

----------------------------------------------------------------------------
(* Calendar: date-time strings "YYYY-MM-DD HH:MM:SS" are modelled as the   *)
(* tuple <<Y, M, D, h, m, s>> of their fields (proleptic Gregorian, UTC).  *)

IsLeap(y) == (y % 4 = 0 /\ y % 100 # 0) \/ y % 400 = 0

DaysInMonth(y, m) ==
    IF m = 2 THEN (IF IsLeap(y) THEN 29 ELSE 28)
    ELSE IF m \in {4, 6, 9, 11} THEN 30 ELSE 31

\* Days from 1970-01-01 to the civil date y-m-d.
DaysFromCivil(y, m, d) ==
    LET yy  == IF m <= 2 THEN y - 1 ELSE y
        era == yy \div 400
        yoe == yy - era * 400
        mp  == (m + 9) % 12
        doy == (153 * mp + 2) \div 5 + d - 1
        doe == yoe * 365 + yoe \div 4 - yoe \div 100 + doy
    IN  era * 146097 + doe - 719468

\* The civil date <<y, m, d>> of a day number.
CivilFromDays(z0) ==
    LET z   == z0 + 719468
        era == z \div 146097
        doe == z - era * 146097
        yoe == (doe - doe \div 1460 + doe \div 36524 - doe \div 146096) \div 365
        doy == doe - (365 * yoe + yoe \div 4 - yoe \div 100)
        mp  == (5 * doy + 2) \div 153
        d   == doy - (153 * mp + 2) \div 5 + 1
        m   == IF mp < 10 THEN mp + 3 ELSE mp - 9
        y   == yoe + era * 400 + (IF m <= 2 THEN 1 ELSE 0)
    IN  <<y, m, d>>

ValidDateTime(s) ==
    /\ Len(s) = 6
    /\ s[2] \in 1..12
    /\ s[3] \in 1..DaysInMonth(s[1], s[2])
    /\ s[4] \in 0..23 /\ s[5] \in 0..59 /\ s[6] \in 0..59

\* Milliseconds since the epoch of the date-time a text denotes.
EpochMs(s) ==
    (DaysFromCivil(s[1], s[2], s[3]) * 86400 + s[4] * 3600 + s[5] * 60 + s[6]) * 1000

\* pd.to_datetime(column, errors="coerce"), no unit: a string is parsed as
\* a date-time, a number counts nanoseconds since the epoch, and what is
\* neither (a missing cell, a string that is no date-time) is NaT.  The
\* instant is kept as its milliseconds since the epoch.
to_datetime(c) ==
    IF c.k = "str" THEN (IF ValidDateTime(c.s) THEN Int2Num(EpochMs(c.s)) ELSE NaT)
    ELSE IF IsNum(c) /\ c.i = 0 THEN NDivInt(c, 1000000)
    ELSE NaT

NoneStr == [k |-> "none", v |-> <<>>]

\* Timestamp.strftime("%Y-%m-%d %H:%M:%S") of an instant given in ms.
strftime(t) ==
    LET secs == (t.n \div t.d) \div 1000
        date == CivilFromDays(secs \div 86400)
        r    == secs % 86400
    IN  [k |-> "str",
         v |-> date \o <<r \div 3600, (r % 3600) \div 60, r % 60>>]

----------------------------------------------------------------------------
(* Datasets (pandas DataFrames).  A dataset is [none, cols, rows]: none is *)
(* TRUE for Python's None, cols lists the column names in order, and each  *)
(* row is a sequence of cells, one per column.                             *)

STANDARD_COLUMNS == <<"Timestamp", "BusVolts", "CurrentMilliAmps", "PowerWatts">>

NoData == [none |-> TRUE, cols |-> <<>>, rows |-> <<>>]

Range(s) == {s[j] : j \in 1..Len(s)}

\* col in df.columns
HasCol(df, col) == col \in Range(df.cols)

\* The position of the first column of that name.
ColIndex(df, col) == CHOOSE j \in 1..Len(df.cols) :
                        df.cols[j] = col /\ \A h \in 1..(j - 1) : df.cols[h] # col

\* df[col], for a column the dataset has.
Column(df, col) == [j \in 1..Len(df.rows) |-> df.rows[j][ColIndex(df, col)]]

\* DataFrame.empty: an axis of length 0.
empty(df) == df.cols = <<>> \/ df.rows = <<>>

AnyNull(column) == \E j \in 1..Len(column) : ~IsNum(column[j])
AllNull(column) == \A j \in 1..Len(column) : ~IsNum(column[j])
DropNa(column) == SelectSeq(column, IsNum)

----------------------------------------------------------------------------
(* The metrics engine.  A metric is a number, None, or KeyError when the   *)
(* computation raises that exception.                                      *)

KeyError == [k |-> "KeyError", i |-> 0, n |-> 0, d |-> 1, s |-> <<>>]

MS_PER_SECOND == 1000
WMS_PER_WH == 3600000
JOULES_PER_WH == 3600

_compute_start_time(_data) ==
    IF _data.none \/ empty(_data) \/ ~HasCol(_data, "Timestamp") THEN NoneStr
    ELSE LET timestamps == MapSeq(to_datetime_ms, Column(_data, "Timestamp"))
             valid_ts   == DropNa(timestamps)
         IN  IF valid_ts = <<>> THEN NoneStr ELSE strftime(valid_ts[1])

_compute_duration_seconds(_data) ==
    IF _data.none \/ empty(_data) \/ ~HasCol(_data, "Timestamp") THEN None
    ELSE LET timestamps == MapSeq(to_datetime_ms, Column(_data, "Timestamp"))
             valid_ts   == DropNa(timestamps)
         IN  IF valid_ts = <<>> THEN None
             ELSE NDivInt(NSub(valid_ts[Len(valid_ts)], valid_ts[1]), MS_PER_SECOND)

\* Series.mean()
Mean(power) == NDivInt(NSum(power), Len(power))

\* The square of Series.std() (ddof = 1); NaN for a single row.
StdSquared(power) ==
    IF Len(power) = 1 THEN NaN
    ELSE LET m  == Mean(power)
             sq == [j \in 1..Len(power) |-> NMul(NSub(power[j], m), NSub(power[j], m))]
         IN  NDivInt(NSum(sq), Len(power) - 1)

\* Variant of _compute_power_average: the mean of the numeric rows, the
\* others ignored.
_compute_power_average_dropna(_data) ==
    IF _data.none \/ empty(_data) THEN None
    ELSE IF ~HasCol(_data, "PowerWatts") THEN KeyError
    ELSE LET power == DropNa(MapSeq(to_numeric, Column(_data, "PowerWatts")))
         IN  IF power = <<>> THEN None ELSE Mean(power)

_compute_power_average(_data) ==
    IF _data.none \/ empty(_data) THEN None
    ELSE IF ~HasCol(_data, "PowerWatts") THEN KeyError
    ELSE LET power == MapSeq(to_numeric, Column(_data, "PowerWatts"))
         IN  IF AnyNull(power) THEN None ELSE Mean(power)

\* The standard deviation is kept as its square (it is irrational in general).
_compute_power_std(_data) ==
    IF _data.none \/ empty(_data) THEN None
    ELSE IF ~HasCol(_data, "PowerWatts") THEN KeyError
    ELSE LET power == MapSeq(to_numeric, Column(_data, "PowerWatts"))
         IN  IF AnyNull(power) THEN None ELSE StdSquared(power)

_compute_power_min(_data) ==
    IF _data.none \/ empty(_data) THEN None
    ELSE IF ~HasCol(_data, "PowerWatts") THEN KeyError
    ELSE LET power == MapSeq(to_numeric, Column(_data, "PowerWatts"))
         IN  IF AnyNull(power) THEN None ELSE NMin(power)

_compute_power_max(_data) ==
    IF _data.none \/ empty(_data) THEN None
    ELSE IF ~HasCol(_data, "PowerWatts") THEN KeyError
    ELSE LET power == MapSeq(to_numeric, Column(_data, "PowerWatts"))
         IN  IF AnyNull(power) THEN None ELSE NMax(power)

\* Variant of trapezoid: the left rectangle rule.
trapezoid_left(y, x) ==
    NSum([j \in 1..(Len(x) - 1) |-> NMul(y[j], NSub(x[j + 1], x[j]))])

\* np.trapezoid(y, x): sum of diff(x) * (y[1:] + y[:-1]) / 2.
trapezoid(y, x) ==
    NSum([j \in 1..(Len(x) - 1) |->
            NDivInt(NMul(NAdd(y[j + 1], y[j]), NSub(x[j + 1], x[j])), 2)])

_compute_energy_wh(_data) ==
    IF _data.none \/ empty(_data) THEN None
    ELSE IF ~(\A j \in 1..Len(STANDARD_COLUMNS) : HasCol(_data, STANDARD_COLUMNS[j]))
    THEN None
    ELSE LET timestamps == MapSeq(to_datetime_ms, Column(_data, "Timestamp"))
             numeric    == MapSeq(to_numeric, Column(_data, "Timestamp"))
             power      == MapSeq(to_numeric, Column(_data, "PowerWatts"))
             time_ms    == IF AllNull(timestamps) THEN numeric
                           ELSE MapSeq(astype_int64_ms, timestamps)
         IN  IF AllNull(timestamps) /\ AnyNull(numeric) THEN None
             ELSE IF AnyNull(power) THEN None
             ELSE NDivInt(trapezoid(power, time_ms), WMS_PER_WH)

\* Not called by load_data: the integration done again, in Joules.
_compute_energy_joules(_data) ==
    LET energy_wh == _compute_energy_wh(_data)
    IN  IF energy_wh.k = "none" THEN None ELSE NMulInt(energy_wh, JOULES_PER_WH)

----------------------------------------------------------------------------
(* The file system.  A name is [dot, stem, ext]: "." if dot, then stem,    *)
(* then "." and ext if ext is not "".  A path is a sequence of names, and  *)
(* the file system a function from the paths that exist to their nodes     *)
(* [kind, entries, csv]: a directory with its listing in os.listdir order, *)
(* or a file with the table pd.read_csv(path) reads from it (cols = <<>>   *)
(* for a file with no columns to parse).                                   *)

NoCsv == [cols |-> <<>>, rows |-> <<>>]

exists(f, path) == path \in DOMAIN f
isdir(f, path) == exists(f, path) /\ f[path].kind = "dir"
basename(path) == <<path[Len(path)]>>
\* os.path.join of relative paths.
join(a, b) == a \o b

\* glob.glob(os.path.join(path, "*.csv")): "*" matches no leading dot.
glob_csv(f, path) ==
    LET isCsv(nm) == ~nm.dot /\ nm.ext = "csv"
        names == SelectSeq(f[path].entries, isCsv)
    IN  [j \in 1..Len(names) |-> join(path, <<names[j]>>)]

\* pd.read_csv(file_path): the table, or the exception raised.
\* EmptyDataError is a ValueError.
read_csv(f, file_path) ==
    IF ~exists(f, file_path) THEN [exc |-> "FileNotFoundError", df |-> NoData]
    ELSE IF f[file_path].kind = "dir" THEN [exc |-> "IsADirectoryError", df |-> NoData]
    ELSE IF f[file_path].csv.cols = <<>> THEN [exc |-> "EmptyDataError", df |-> NoData]
    ELSE [exc |-> "none",
          df |-> [none |-> FALSE, cols |-> f[file_path].csv.cols,
                  rows |-> f[file_path].csv.rows]]

\* pd.read_csv(file_path, names=names, header=0): the header row is dropped
\* and the columns are named by position; a column the file lacks is NaN.
\* Files of the model have at most as many columns as names.
read_csv_names(f, file_path, names) ==
    LET r == read_csv(f, file_path)
    IN  IF r.exc # "none" THEN r
        ELSE [exc |-> "none",
              df |-> [none |-> FALSE, cols |-> names,
                      rows |-> [j \in 1..Len(r.df.rows) |->
                                  [c \in 1..Len(names) |->
                                      IF c <= Len(r.df.rows[j]) THEN r.df.rows[j][c]
                                      ELSE NaN]]]]

----------------------------------------------------------------------------
(* Records (BaseEnergyDataSource objects).  data_file_name is <<>> for     *)
(* None and <<name>> otherwise; _name is "" for None.                      *)

BatteryManager == "BatteryManagerEnergyDataSource"
WattoMeter == "WattoMeterEnergyDataSource"
\* Any further subclass that implements _load_data_impl and inherits __init__.
Subclass == "Subclass"

\* BaseEnergyDataSource.__init__
BaseInit(class, source, data_source_path, name) ==
    [cls |-> class, source |-> source, data_source_path |-> data_source_path,
     data_file_name |-> <<>>, _data |-> NoData, _energy_wh |-> None,
     _power_avg |-> None, _power_std |-> None, _power_min |-> None,
     _power_max |-> None, _name |-> name, _duration_seconds |-> None,
     _start_time |-> NoneStr]

\* Variant of energy_joules: the factor of Wh to kJ.
energy_joules_kilo(self) ==
    IF self._energy_wh.k = "none" THEN None
    ELSE NDivInt(NMulInt(self._energy_wh, 18), 5)

\* The energy_joules property.
energy_joules(self) ==
    IF self._energy_wh.k = "none" THEN None
    ELSE NMulInt(self._energy_wh, JOULES_PER_WH)

\* The path of the CSV file both adapters resolve, <<>> when the directory
\* holds none.
resolve_file_path(self, f) ==
    IF isdir(f, self.data_source_path)
    THEN (IF glob_csv(f, self.data_source_path) = <<>> THEN <<>>
          ELSE glob_csv(f, self.data_source_path)[1])
    ELSE self.data_source_path

\* df["CurrentMilliAmps"]: uA -> mA.
BM_CurrentMilliAmps(rawCurrent) == FDivInt(to_numeric(rawCurrent), 1000)

\* df["BusVolts"]: mV -> V.
BM_BusVolts(rawVoltage) == FDivInt(to_numeric(rawVoltage), 1000)

\* Variant of BM_PowerWatts: the current left in mA.
BM_PowerWatts_milli(busVolts, currentMilliAmps) == FMul(busVolts, currentMilliAmps)

\* df["PowerWatts"]: V * A.
BM_PowerWatts(busVolts, currentMilliAmps) ==
    FMul(busVolts, FDivInt(currentMilliAmps, 1000))

\* BatteryManagerEnergyDataSource._load_data_impl: [exc, rec].
BatteryManager_load_data_impl(self, f) ==
    LET file_path == resolve_file_path(self, f)
        named     == [self EXCEPT !.data_file_name = basename(file_path)]
        r         == read_csv(f, file_path)
        df        == r.df
        raw(row, col) == row[ColIndex(df, col)]
        CurrentMilliAmps(row) ==
            BM_CurrentMilliAmps(raw(row, "BATTERY_PROPERTY_CURRENT_NOW"))
        BusVolts(row) == BM_BusVolts(raw(row, "EXTRA_VOLTAGE"))
        PowerWatts(row) == BM_PowerWatts(BusVolts(row), CurrentMilliAmps(row))
    IN  IF file_path = <<>> THEN [exc |-> "FileNotFoundError", rec |-> self]
        ELSE IF r.exc # "none" THEN [exc |-> r.exc, rec |-> named]
        ELSE IF ~HasCol(df, "BATTERY_PROPERTY_CURRENT_NOW") \/ ~HasCol(df, "EXTRA_VOLTAGE")
                \/ ~HasCol(df, "Timestamp")
        THEN [exc |-> "KeyError", rec |-> named]
        ELSE [exc |-> "none",
              rec |-> [named EXCEPT !._data =
                  [none |-> FALSE, cols |-> STANDARD_COLUMNS,
                   rows |-> [j \in 1..Len(df.rows) |->
                       <<raw(df.rows[j], "Timestamp"), BusVolts(df.rows[j]),
                         CurrentMilliAmps(df.rows[j]), PowerWatts(df.rows[j])>>]]]]

\* df["Timestamp"]: pd.to_datetime(...).astype('int64') // 10**6.
WM_Timestamp(rawTimestamp) == astype_int64_ms(to_datetime(rawTimestamp))

\* WattoMeterEnergyDataSource._load_data_impl: [exc, rec].
WattoMeter_load_data_impl(self, f) ==
    LET file_path == resolve_file_path(self, f)
        named     == [self EXCEPT !.data_file_name = basename(file_path)]
        r         == read_csv_names(f, file_path, STANDARD_COLUMNS)
        df        == r.df
    IN  IF file_path = <<>> THEN [exc |-> "FileNotFoundError", rec |-> self]
        ELSE IF r.exc # "none" THEN [exc |-> r.exc, rec |-> named]
        ELSE [exc |-> "none",
              rec |-> [named EXCEPT !._data =
                  [df EXCEPT !.rows = [j \in 1..Len(df.rows) |->
                       [df.rows[j] EXCEPT ![1] = WM_Timestamp(df.rows[j][1])]]]]]

\* _load_data_impl as the class of self implements it; a further subclass
\* leaves the dataset d.
_load_data_impl(self, f, d) ==
    IF self.cls = BatteryManager THEN BatteryManager_load_data_impl(self, f)
    ELSE IF self.cls = WattoMeter THEN WattoMeter_load_data_impl(self, f)
    ELSE [exc |-> "none", rec |-> [self EXCEPT !._data = d]]

\* The derive pass of load_data: the assignments in order, up to the first
\* computation that raises.
derive(self) ==
    LET d  == self._data
        r1 == [self EXCEPT !._energy_wh = _compute_energy_wh(d)]
        r2 == [r1 EXCEPT !._power_avg = _compute_power_average(d)]
        r3 == [r2 EXCEPT !._power_std = _compute_power_std(d)]
        r4 == [r3 EXCEPT !._power_min = _compute_power_min(d)]
        r5 == [r4 EXCEPT !._power_max = _compute_power_max(d)]
        r6 == [r5 EXCEPT !._start_time = _compute_start_time(d)]
        r7 == [r6 EXCEPT !._duration_seconds = _compute_duration_seconds(d)]
    IN  IF _compute_power_average(d).k = "KeyError" THEN [exc |-> "KeyError", rec |-> r1]
        ELSE IF _compute_power_std(d).k = "KeyError" THEN [exc |-> "KeyError", rec |-> r2]
        ELSE IF _compute_power_min(d).k = "KeyError" THEN [exc |-> "KeyError", rec |-> r3]
        ELSE IF _compute_power_max(d).k = "KeyError" THEN [exc |-> "KeyError", rec |-> r4]
        ELSE [exc |-> "none", rec |-> r7]

\* BaseEnergyDataSource.load_data: [exc, rec].
load_data(self, f, d) ==
    LET l == _load_data_impl(self, f, d)
    IN  IF l.exc # "none" THEN l ELSE derive(l.rec)

----------------------------------------------------------------------------
(* Inputs of the model. *)

Name(stem, ext) == [dot |-> FALSE, stem |-> stem, ext |-> ext]
Hidden(stem, ext) == [dot |-> TRUE, stem |-> stem, ext |-> ext]
File(csv) == [kind |-> "file", entries |-> <<>>, csv |-> csv]
Dir(entries) == [kind |-> "dir", entries |-> entries, csv |-> NoCsv]

\* All sequences over S of length at most n.
SeqsUpTo(S, n) == UNION {[1..m -> S] : m \in 0..n}

\* Rows of a battery-manager log: Timestamp (epoch ms), current (uA),
\* voltage (mV).
BmRows ==
    { <<Int2Num(1000), Int2Num(500000), Int2Num(4000)>>,
      <<Int2Num(2000), Int2Num(250000), Int2Num(4000)>>,
      <<Int2Num(4000), Int2Num(500000), Int2Num(2000)>>,
      <<NaN,           Int2Num(500000), Int2Num(4000)>>,
      <<Int2Num(3000), Str(<<>>),       Int2Num(4000)>>,
      <<Str(<<>>),     Int2Num(250000), NaN>> }

\* Headers of a battery-manager log: complete, or with one expected column
\* under another name.
BmHeaders ==
    { <<"Timestamp", "BATTERY_PROPERTY_CURRENT_NOW", "EXTRA_VOLTAGE">>,
      <<"Time", "BATTERY_PROPERTY_CURRENT_NOW", "EXTRA_VOLTAGE">>,
      <<"Timestamp", "CURRENT", "EXTRA_VOLTAGE">>,
      <<"Timestamp", "BATTERY_PROPERTY_CURRENT_NOW", "VOLTAGE">> }

BmCsvs == {[cols |-> h, rows |-> r] : h \in BmHeaders, r \in SeqsUpTo(BmRows, MaxRows)}

\* Rows of a wattmeter log: date-time text, voltage (V), current (mA),
\* power (W).
WmRows ==
    { <<Str(<<1970, 1, 1, 0, 0, 1>>),  Int2Num(4), Int2Num(500), Int2Num(2)>>,
      <<Str(<<1970, 1, 1, 0, 0, 3>>),  Int2Num(4), Int2Num(250), Int2Num(1)>>,
      <<Str(<<1970, 1, 2, 0, 0, 0>>),  Int2Num(5), Int2Num(200), Int2Num(1)>>,
      <<Str(<<1970, 13, 1, 0, 0, 0>>), Int2Num(4), Int2Num(500), Int2Num(2)>>,
      <<Str(<<>>),                     Int2Num(4), Int2Num(250), Int2Num(1)>>,
      <<Str(<<1970, 1, 1, 0, 0, 2>>),  Int2Num(4), Int2Num(500), Str(<<>>)>> }

WmHeader == <<"Time", "Voltage", "Current", "Power">>

WmCsvs == {[cols |-> WmHeader, rows |-> r] : r \in SeqsUpTo(WmRows, MaxRows)}

\* Rows a further subclass may leave: Timestamp, BusVolts, CurrentMilliAmps,
\* PowerWatts.
GivenRows ==
    { <<Int2Num(1000), Int2Num(4), Int2Num(500), Int2Num(2)>>,
      <<Int2Num(3000), Int2Num(4), Int2Num(250), Int2Num(1)>>,
      <<Int2Num(2000), Int2Num(4), Int2Num(500), Int2Num(2)>>,
      <<NaN,           Int2Num(4), Int2Num(500), Int2Num(2)>>,
      <<Int2Num(2500), Int2Num(4), Int2Num(500), Str(<<>>)>>,
      <<INAT_MS,       Int2Num(4), Int2Num(250), Int2Num(1)>> }

\* The standard columns kept, as positions: all, or all but one, or none.
GivenColumns == { <<1, 2, 3, 4>>, <<1, 2, 3>>, <<2, 3, 4>>, <<1, 3, 4>>, <<>> }

Project(row, keep) == [j \in 1..Len(keep) |-> row[keep[j]]]

GivenData ==
    {NoData} \cup
    { [none |-> FALSE,
       cols |-> Project(STANDARD_COLUMNS, keep),
       rows |-> [j \in 1..Len(r) |-> Project(r[j], keep)]] :
         keep \in GivenColumns, r \in SeqsUpTo(GivenRows, MaxRows) }

DataCsv == <<Name("data", "csv")>>
RunDir == <<Name("run", "")>>

\* A log file named directly.
FileSetups ==
    { [path |-> DataCsv, fs |-> (DataCsv :> File(csv))] : csv \in BmCsvs \cup WmCsvs }

FirstBmCsv == [cols |-> <<"Timestamp", "BATTERY_PROPERTY_CURRENT_NOW", "EXTRA_VOLTAGE">>,
               rows |-> << <<Int2Num(1000), Int2Num(500000), Int2Num(4000)>>,
                           <<Int2Num(2000), Int2Num(250000), Int2Num(4000)>> >>]
SecondBmCsv == [cols |-> <<"Timestamp", "BATTERY_PROPERTY_CURRENT_NOW", "EXTRA_VOLTAGE">>,
                rows |-> << <<Int2Num(4000), Int2Num(500000), Int2Num(2000)>> >>]

\* A directory with two logs, one without, a missing path, an empty file.
OtherSetups ==
    { [path |-> RunDir,
       fs |-> (RunDir :> Dir(<<Hidden("old", "csv"), Name("readme", "txt"),
                               Name("b", "csv"), Name("a", "csv")>>))
              @@ (join(RunDir, <<Hidden("old", "csv")>>) :> File(SecondBmCsv))
              @@ (join(RunDir, <<Name("readme", "txt")>>) :> File(NoCsv))
              @@ (join(RunDir, <<Name("b", "csv")>>) :> File(FirstBmCsv))
              @@ (join(RunDir, <<Name("a", "csv")>>) :> File(SecondBmCsv))],
      [path |-> RunDir,
       fs |-> (RunDir :> Dir(<<Name("readme", "txt")>>))
              @@ (join(RunDir, <<Name("readme", "txt")>>) :> File(NoCsv))],
      [path |-> DataCsv, fs |-> (RunDir :> Dir(<<>>))],
      [path |-> DataCsv, fs |-> (DataCsv :> File(NoCsv))] }

----------------------------------------------------------------------------
(* RecSpec: one record and its load_data.  The record starts with the      *)
(* fields BaseEnergyDataSource.__init__ sets; load_data then runs the      *)
(* _load_data_impl of the record's class and the derive pass.              *)

LoaderIdle ==
    /\ experiments = <<>> /\ idx = 1 /\ sub = 0 /\ sources = <<>>
    /\ attempts = <<>> /\ pc = "idle" /\ exc = "none"

RecInit ==
    /\ \/ \E class \in {BatteryManager, WattoMeter} :
          \E setup \in FileSetups \cup OtherSetups :
             /\ rec = BaseInit(class, IF class = BatteryManager THEN "batterymanager"
                                      ELSE "wattometer", setup.path, "run")
             /\ fs = setup.fs
             /\ given = NoData
       \/ \E d \in GivenData :
             /\ rec = BaseInit(Subclass, "subclass", DataCsv, "run")
             /\ fs = (DataCsv :> File(NoCsv))
             /\ given = d
    /\ rpc = "new"
    /\ rexc = "none"
    /\ LoaderIdle

\* obj.load_data()
LoadData ==
    /\ rpc = "new"
    /\ LET l == load_data(rec, fs, given)
       IN  /\ rec' = l.rec
           /\ rexc' = l.exc
           /\ rpc' = IF l.exc = "none" THEN "loaded" ELSE "raised"
    /\ UNCHANGED <<given, fs, experiments, idx, sub, sources, attempts, pc, exc>>

RecNext == LoadData

RecSpec == RecInit /\ [][RecNext]_vars

----------------------------------------------------------------------------
(* Adapter selection and construction. *)

\* android_runner_data.SOURCE_CLASS_MAP
SOURCE_CLASS_MAP == ("batterymanager" :> BatteryManager) @@ ("wattometer" :> WattoMeter)

\* The parameters BaseEnergyDataSource.__init__ accepts besides self.
BaseInitParameters == {"source", "data_source_path", "name"}

\* The arguments BatteryManagerEnergyDataSource.__init__ passes to
\* super().__init__.
BatteryManager_super_arguments ==
    {"source", "data_source_path", "name", "handle_duplicates",
     "duplicate_tolerance_percent"}

\* The arguments WattoMeterEnergyDataSource.__init__ passes to
\* super().__init__.
WattoMeter_super_arguments ==
    {"source", "data_source_path", "name", "handle_duplicates"}

\* Stands for "no object" where a call raised.
NoObject == BaseInit("", "", <<>>, "")

\* cls(source=..., data_source_path=..., name=...): the class's __init__
\* calls the base initialiser, which raises TypeError on a keyword it does
\* not accept.  [exc, obj].
new_instance(class, source, data_source_path, name) ==
    LET arguments == IF class = BatteryManager THEN BatteryManager_super_arguments
                     ELSE IF class = WattoMeter THEN WattoMeter_super_arguments
                     ELSE BaseInitParameters
    IN  IF arguments \subseteq BaseInitParameters
        THEN [exc |-> "none", obj |-> BaseInit(class, source, data_source_path, name)]
        ELSE [exc |-> "TypeError", obj |-> NoObject]

\* BaseEnergyDataSource.create_from_type with the default source_class_map:
\* [exc, obj].
create_from_type(source_type, data_source_path, name) ==
    IF source_type \notin DOMAIN SOURCE_CLASS_MAP
    THEN [exc |-> "ValueError", obj |-> NoObject]
    ELSE new_instance(SOURCE_CLASS_MAP[source_type], source_type, data_source_path, name)

----------------------------------------------------------------------------
(* Spec: load_experiments.  An entry is [source_type, data_path,           *)
(* data_path_global, name] with data_path_global = <<>> when absent.       *)

\* The body of the try statement: create_from_type, then load_data.
\* [created, new, exc, obj]: the outcome and object of create_from_type,
\* the exception that leaves the body and the object after load_data.
try_load(source_type, path, name, f) ==
    LET c == create_from_type(source_type, path, name)
        l == load_data(c.obj, f, NoData)
    IN  IF c.exc # "none"
        THEN [created |-> c.exc, new |-> c.obj, exc |-> c.exc, obj |-> c.obj]
        ELSE [created |-> "none", new |-> c.obj, exc |-> l.exc, obj |-> l.rec]

\* The except clauses: ValueError (EmptyDataError is one) and
\* FileNotFoundError.
Handled(e) == e \in {"ValueError", "EmptyDataError", "FileNotFoundError"}

\* os.listdir(path): [exc, entries].
listdir(f, path) ==
    IF ~exists(f, path) THEN [exc |-> "FileNotFoundError", entries |-> <<>>]
    ELSE IF f[path].kind # "dir" THEN [exc |-> "NotADirectoryError", entries |-> <<>>]
    ELSE [exc |-> "none", entries |-> f[path].entries]

Runs == <<Name("runs", "")>>

LoaderFs ==
    (Runs :> Dir(<<Hidden("git", ""), Name("A", ""), Name("notes", "txt"), Name("B", "")>>))
    @@ (join(Runs, <<Hidden("git", "")>>) :> Dir(<<>>))
    @@ (join(Runs, <<Name("A", "")>>) :> Dir(<<Name("log", "csv")>>))
    @@ (join(Runs, <<Name("A", ""), Name("log", "csv")>>) :> File(FirstBmCsv))
    @@ (join(Runs, <<Name("notes", "txt")>>) :> File(NoCsv))
    @@ (join(Runs, <<Name("B", "")>>) :> Dir(<<>>))
    @@ (<<Name("wm", "csv")>> :>
          File([cols |-> WmHeader,
                rows |-> << <<Str(<<1970, 1, 1, 0, 0, 1>>), Int2Num(4), Int2Num(500), Int2Num(2)>>,
                            <<Str(<<1970, 1, 1, 0, 0, 3>>), Int2Num(4), Int2Num(250), Int2Num(1)>> >>]))
    @@ (<<Name("empty", "csv")>> :> File(NoCsv))

Entries ==
    { [source_type |-> t, data_path |-> p[1], data_path_global |-> p[2], name |-> "run"] :
        t \in {"batterymanager", "wattometer", "unknown"},
        p \in { <<join(Runs, <<Name("A", "")>>), <<>>>>,
                <<join(Runs, <<Name("B", "")>>), <<>>>>,
                <<<<Name("wm", "csv")>>, <<>>>>,
                <<<<Name("empty", "csv")>>, <<>>>>,
                <<<<Name("log", "csv")>>, Runs>>,
                <<<<Name("log", "csv")>>, <<Name("nowhere", "")>>>>,
                <<<<Name("log", "csv")>>, <<Name("wm", "csv")>>>> } }

RecIdle ==
    /\ given = NoData /\ rec = NoObject /\ rpc = "idle" /\ rexc = "none"

Init ==
    /\ experiments \in SeqsUpTo(Entries, MaxEntries)
    /\ fs = LoaderFs
    /\ idx = 1
    /\ sub = 0
    /\ sources = <<>>
    /\ attempts = <<>>
    /\ pc = "loop"
    /\ exc = "none"
    /\ RecIdle

\* The effect of one try statement on the loop, t being what try_load
\* gave: the record is appended, or the exception is handled and the entry
\* skipped, or the exception leaves load_experiments.  nextIdx and nextSub
\* are where the loops go on.
TryOutcome(t, source_type, path, name, nextIdx, nextSub) ==
    /\ attempts' = Append(attempts,
                          [entry |-> idx, subdir |-> sub, path |-> path,
                           source_type |-> source_type, name |-> name,
                           created |-> t.created, new |-> t.new, exc |-> t.exc])
    /\ IF t.exc = "none"
       THEN /\ sources' = Append(sources, t.obj)
            /\ idx' = nextIdx /\ sub' = nextSub
            /\ UNCHANGED <<pc, exc>>
       ELSE IF Handled(t.exc)
       THEN /\ idx' = nextIdx /\ sub' = nextSub
            /\ UNCHANGED <<sources, pc, exc>>
       ELSE /\ pc' = "raised" /\ exc' = t.exc
            /\ UNCHANGED <<sources, idx, sub>>

TryStep(source_type, path, name, nextIdx, nextSub) ==
    TryOutcome(try_load(source_type, path, name, fs),
               source_type, path, name, nextIdx, nextSub)

\* An entry without data_path_global.
LoadSingle ==
    /\ pc = "loop"
    /\ idx <= Len(experiments)
    /\ experiments[idx].data_path_global = <<>>
    /\ TryStep(experiments[idx].source_type, experiments[idx].data_path,
               experiments[idx].name, idx + 1, 0)
    /\ UNCHANGED <<experiments, fs, given, rec, rpc, rexc>>

\* An entry with data_path_global: os.listdir of the root.
ListGlobalRoot ==
    /\ pc = "loop"
    /\ idx <= Len(experiments)
    /\ experiments[idx].data_path_global # <<>>
    /\ sub = 0
    /\ LET ls == listdir(fs, experiments[idx].data_path_global)
       IN  IF ls.exc # "none"
           THEN /\ pc' = "raised" /\ exc' = ls.exc /\ UNCHANGED <<idx, sub>>
           ELSE IF ls.entries = <<>>
           THEN /\ idx' = idx + 1 /\ UNCHANGED <<sub, pc, exc>>
           ELSE /\ sub' = 1 /\ UNCHANGED <<idx, pc, exc>>
    /\ UNCHANGED <<sources, attempts, experiments, fs, given, rec, rpc, rexc>>

\* One pass of the loop over the root's listing.
LoadSubdir ==
    /\ pc = "loop"
    /\ idx <= Len(experiments)
    /\ sub >= 1
    /\ LET root        == experiments[idx].data_path_global
           entries     == listdir(fs, root).entries
           subdir      == entries[sub]
           subdir_path == join(root, <<subdir>>)
           nextIdx     == IF sub = Len(entries) THEN idx + 1 ELSE idx
           nextSub     == IF sub = Len(entries) THEN 0 ELSE sub + 1
       IN  IF ~subdir.dot /\ isdir(fs, subdir_path)
           THEN TryStep(experiments[idx].source_type,
                        join(subdir_path, experiments[idx].data_path),
                        experiments[idx].name, nextIdx, nextSub)
           ELSE /\ idx' = nextIdx /\ sub' = nextSub
                /\ UNCHANGED <<sources, attempts, pc, exc>>
    /\ UNCHANGED <<experiments, fs, given, rec, rpc, rexc>>

\* return sources
Return ==
    /\ pc = "loop"
    /\ idx > Len(experiments)
    /\ pc' = "returned"
    /\ UNCHANGED <<idx, sub, sources, attempts, exc, experiments, fs, given, rec, rpc, rexc>>

Next == LoadSingle \/ ListGlobalRoot \/ LoadSubdir \/ Return

Spec == Init /\ [][Next]_vars

----------------------------------------------------------------------------
(* Properties of a record (RecSpec). *)

Loaded == rpc = "loaded"

IsNone(x) == x.k = "none"

\* A cell that is a time in epoch milliseconds.
ValidTime(c) == c.k = "num" /\ c.i = 0

HasValidTimestamp(d) ==
    /\ ~d.none
    /\ HasCol(d, "Timestamp")
    /\ \E j \in 1..Len(d.rows) : ValidTime(Column(d, "Timestamp")[j])

PowerCorrupt(d) ==
    /\ ~d.none
    /\ HasCol(d, "PowerWatts")
    /\ \E j \in 1..Len(d.rows) : Column(d, "PowerWatts")[j].k # "num"

\* C4: after load_data on a dataset whose PowerWatts column holds a
\* non-numeric or missing value, the average, standard deviation, minimum
\* and maximum of power and the energy are all None, and start time and
\* duration are computed whenever a timestamp is valid.
C4_PowerAllOrNothing ==
    (Loaded /\ PowerCorrupt(rec._data)) =>
        /\ IsNone(rec._power_avg) /\ IsNone(rec._power_std)
        /\ IsNone(rec._power_min) /\ IsNone(rec._power_max)
        /\ IsNone(rec._energy_wh)
        /\ HasValidTimestamp(rec._data) =>
              (rec._start_time.k = "str" /\ rec._duration_seconds.k = "num")

\* A loaded dataset with a corrupt and a numeric power value and valid times.
C4_Witness ==
    /\ Loaded /\ PowerCorrupt(rec._data)
    /\ \E j \in 1..Len(rec._data.rows) : Column(rec._data, "PowerWatts")[j].k = "num"
    /\ HasValidTimestamp(rec._data)
    /\ rec._start_time.k = "str"
    /\ rec._duration_seconds.k = "num" /\ rec._duration_seconds.n > 0

\* C5: once _load_data_impl has left its dataset in the record, the derive
\* pass of load_data raises nothing: load_data raises only with no dataset
\* in the record (an exception of _load_data_impl itself).
C5_DeriveNeverRaises == rpc = "raised" => rec._data.none

\* C6: energy_joules is None exactly when energy_wh is, and otherwise is
\* energy_wh times 3600, in every state of the record.
C6_JoulesFromWh ==
    LET j == energy_joules(rec)
        w == rec._energy_wh
    IN  /\ IsNone(j) <=> IsNone(w)
        /\ ~IsNone(w) =>
              /\ j.k = "num" /\ w.k = "num"
              /\ j = NMulInt(w, 3600)

\* A loaded record with a non-zero energy.
C6_Witness == Loaded /\ rec._energy_wh.k = "num" /\ rec._energy_wh.n # 0

\* A dataset with the four columns, at least one row, every power a number
\* and every timestamp a whole number of epoch milliseconds.
ValidDataset(d) ==
    /\ ~d.none
    /\ \A c \in Range(STANDARD_COLUMNS) : HasCol(d, c)
    /\ d.rows # <<>>
    /\ \A j \in 1..Len(d.rows) :
          /\ Column(d, "PowerWatts")[j].k = "num" /\ Column(d, "PowerWatts")[j].i = 0
          /\ ValidTime(Column(d, "Timestamp")[j]) /\ Column(d, "Timestamp")[j].d = 1

\* Twice the trapezoidal sum in W ms, row after row in the order given.
RECURSIVE TwiceTrapezoidalSum(_, _)
TwiceTrapezoidalSum(P, T) ==
    IF Len(P) < 2 THEN Int2Num(0)
    ELSE NAdd(NMul(NAdd(P[1], P[2]), NSub(T[2], T[1])),
              TwiceTrapezoidalSum(Tail(P), Tail(T)))

\* C7: for a valid dataset energy_wh is the trapezoidal sum over
\* consecutive rows in input order divided by 3,600,000, and constant power
\* p from the first to the last timestamp gives p * (T_last - T_first) /
\* 3,600,000 Wh.
C7_EnergyIsTrapezoid ==
    (Loaded /\ ValidDataset(rec._data)) =>
        LET P == Column(rec._data, "PowerWatts")
            T == Column(rec._data, "Timestamp")
        IN  /\ rec._energy_wh.k = "num"
            /\ NMulInt(rec._energy_wh, 7200000) = TwiceTrapezoidalSum(P, T)
            /\ (\A j \in 1..Len(P) : P[j] = P[1]) =>
                  NMulInt(rec._energy_wh, 3600000) = NMul(P[1], NSub(T[Len(T)], T[1]))

\* A valid dataset of three rows, not in time order, power not constant.
C7_Witness ==
    /\ Loaded /\ ValidDataset(rec._data)
    /\ Len(rec._data.rows) = 3
    /\ LET P == Column(rec._data, "PowerWatts")
           T == Column(rec._data, "Timestamp")
       IN  /\ NLess(T[2], T[1]) /\ NLess(T[2], T[3])
           /\ P[1] # P[2]
           /\ rec._energy_wh.n # 0

\* The table the battery-manager adapter read.
RawCsv == read_csv(fs, resolve_file_path(rec, fs)).df

\* C8: the battery-manager adapter maps every raw row to a canonical row
\* with CurrentMilliAmps = current / 1000, BusVolts = voltage / 1000,
\* PowerWatts = BusVolts * CurrentMilliAmps / 1000 and the raw Timestamp,
\* keeping the rows' number and order; 500000 uA and 4000 mV give 500 mA,
\* 4 V and 2 W.
C8_BatteryManagerMapping ==
    (Loaded /\ rec.cls = BatteryManager) =>
        /\ rec._data.cols = STANDARD_COLUMNS
        /\ Len(rec._data.rows) = Len(RawCsv.rows)
        /\ \A j \in 1..Len(RawCsv.rows) :
              LET ts  == Column(RawCsv, "Timestamp")[j]
                  cur == Column(RawCsv, "BATTERY_PROPERTY_CURRENT_NOW")[j]
                  vol == Column(RawCsv, "EXTRA_VOLTAGE")[j]
                  row == rec._data.rows[j]
              IN  /\ row[1] = ts
                  /\ cur.k = "num" => NMulInt(row[3], 1000) = cur
                  /\ vol.k = "num" => NMulInt(row[2], 1000) = vol
                  /\ (cur.k = "num" /\ vol.k = "num") =>
                        NMulInt(row[4], 1000) = NMul(row[2], row[3])
                  /\ (cur = Int2Num(500000) /\ vol = Int2Num(4000)) =>
                        /\ row[3] = Int2Num(500) /\ row[2] = Int2Num(4)
                        /\ row[4] = Int2Num(2)

\* Two rows loaded, the second from 500000 uA and 4000 mV and at an earlier
\* time than the first.
C8_Witness ==
    /\ Loaded /\ rec.cls = BatteryManager
    /\ Len(rec._data.rows) = 2
    /\ Column(RawCsv, "BATTERY_PROPERTY_CURRENT_NOW")[2] = Int2Num(500000)
    /\ Column(RawCsv, "EXTRA_VOLTAGE")[2] = Int2Num(4000)
    /\ rec._data.rows[2][4] = Int2Num(2)
    /\ rec._data.rows[1][1] = Int2Num(4000)
    /\ rec._data.rows[2][1] = Int2Num(1000)

\* C9: energy is a number only if the dataset is non-empty, has the four
\* columns, every power value is numeric, and the Timestamp column converts
\* for every row: all rows are times in epoch ms, or else all are numeric.
C9_EnergyNeedsWholeChain ==
    (Loaded /\ ~IsNone(rec._energy_wh)) =>
        LET d == rec._data
        IN  /\ ~d.none /\ d.rows # <<>>
            /\ \A c \in Range(STANDARD_COLUMNS) : HasCol(d, c)
            /\ \A j \in 1..Len(d.rows) : Column(d, "PowerWatts")[j].k = "num"
            /\ \/ \A j \in 1..Len(d.rows) : ValidTime(Column(d, "Timestamp")[j])
               \/ /\ \A j \in 1..Len(d.rows) : ~ValidTime(Column(d, "Timestamp")[j])
                  /\ \A j \in 1..Len(d.rows) : Column(d, "Timestamp")[j].k = "num"

\* The raw table the wattmeter adapter read.
RawWmCsv == read_csv_names(fs, resolve_file_path(rec, fs), STANDARD_COLUMNS).df

Parses(c) == c.k = "str" /\ ValidDateTime(c.s)

\* C10: the wattmeter adapter keeps every row; a row whose date-time text
\* parses gets the epoch milliseconds of that instant as Timestamp, and a
\* row whose text does not parse gets a missing Timestamp, never a number.
C10_WattmeterTimestamps ==
    (Loaded /\ rec.cls = WattoMeter) =>
        /\ Len(rec._data.rows) = Len(RawWmCsv.rows)
        /\ \A j \in 1..Len(RawWmCsv.rows) :
              LET raw == RawWmCsv.rows[j][1]
                  ts  == rec._data.rows[j][1]
              IN  /\ Parses(raw) => ts = Int2Num(EpochMs(raw.s))
                  /\ (raw.k = "str" /\ ~Parses(raw)) => ts.k \in {"nan", "nat", "none"}

----------------------------------------------------------------------------
(* Properties of load_experiments (Spec). *)

\* The attempts whose try statement ended without an exception, and those
\* whose exception was not handled as a skip.
Succeeded(a) == a.exc = "none"
NotSkipped(a) == ~Handled(a.exc)

\* C1: load_experiments never lets an exception escape; when it returns,
\* every entry without a global root has been attempted and the list holds
\* as many records as attempts succeeded.
C1_LoaderNeverAborts ==
    /\ pc # "raised"
    /\ pc = "returned" =>
          /\ \A e \in 1..Len(experiments) :
                experiments[e].data_path_global = <<>> =>
                    \E j \in 1..Len(attempts) : attempts[j].entry = e
          /\ Len(sources) = Len(SelectSeq(attempts, Succeeded))

\* C2: create_from_type raises exactly for an identifier that is no key of
\* SOURCE_CLASS_MAP, and then ValueError; for a key it returns a record of
\* the mapped class with the given source type, path and name, no dataset
\* and every metric None.
C2_CreateFromType ==
    \A j \in 1..Len(attempts) :
        LET a == attempts[j]
        IN  IF a.source_type \in DOMAIN SOURCE_CLASS_MAP
            THEN /\ a.created = "none"
                 /\ a.new.cls = SOURCE_CLASS_MAP[a.source_type]
                 /\ a.new.source = a.source_type
                 /\ a.new.data_source_path = a.path
                 /\ a.new._name = a.name
                 /\ a.new._data.none
                 /\ IsNone(a.new._energy_wh) /\ IsNone(a.new._power_avg)
                 /\ IsNone(a.new._power_std) /\ IsNone(a.new._power_min)
                 /\ IsNone(a.new._power_max) /\ IsNone(a.new._duration_seconds)
                 /\ IsNone(a.new._start_time)
            ELSE a.created = "ValueError"

AttemptsAt(e, s) ==
    { j \in 1..Len(attempts) : attempts[j].entry = e /\ attempts[j].subdir = s }

\* Entry e has a global root that os.listdir could list.
HasListedRoot(e) ==
    /\ experiments[e].data_path_global # <<>>
    /\ listdir(fs, experiments[e].data_path_global).exc = "none"

\* load_experiments is through with entry e: it went on to a later entry,
\* returned, or was left by an exception while at e.
Done(e) == e < idx \/ pc = "returned" \/ (pc = "raised" /\ e = idx)

\* No attempt is made for a hidden name or for a name that is no
\* directory, never more than one for a name, and only at
\* join(root, subdir, data_path).
OnlySubdirAttempts(e) ==
    LET root    == experiments[e].data_path_global
        entries == listdir(fs, root).entries
    IN  \A s \in 1..Len(entries) :
            /\ Cardinality(AttemptsAt(e, s)) <= 1
            /\ (entries[s].dot \/ ~isdir(fs, join(root, <<entries[s]>>))) =>
                  AttemptsAt(e, s) = {}
            /\ \A j \in AttemptsAt(e, s) :
                  /\ attempts[j].path =
                        join(join(root, <<entries[s]>>), experiments[e].data_path)
                  /\ attempts[j].source_type = experiments[e].source_type

\* Every subdirectory of the root that is not hidden got its attempt.
EverySubdirAttempted(e) ==
    LET root    == experiments[e].data_path_global
        entries == listdir(fs, root).entries
    IN  \A s \in 1..Len(entries) :
            (~entries[s].dot /\ isdir(fs, join(root, <<entries[s]>>))) =>
                AttemptsAt(e, s) # {}

\* Entry e is the battery-manager entry over the root runs, whose
\* subdirectories are A, holding log.csv, and B, holding nothing.
IsRunsEntry(e) ==
    /\ experiments[e].source_type = "batterymanager"
    /\ experiments[e].data_path_global = Runs
    /\ experiments[e].data_path = <<Name("log", "csv")>>

\* The attempts of entry e that gave a record.
RecordsOf(e) ==
    { j \in 1..Len(attempts) : attempts[j].entry = e /\ Succeeded(attempts[j]) }

\* C11: for an entry with a global root, load_experiments makes exactly one
\* attempt for every immediate subdirectory of the root whose name does not
\* start with '.', at join(root, subdirectory, data_path), and none for a
\* hidden name or a name that is no directory; with subdirectories A and B
\* of which only B lacks its file, the entry gives exactly one record, the
\* one of A, and it is in the list.
C11_OneAttemptPerSubdir ==
    \A e \in 1..Len(experiments) :
        (HasListedRoot(e) /\ Done(e)) =>
            /\ OnlySubdirAttempts(e)
            /\ EverySubdirAttempted(e)
            /\ IsRunsEntry(e) =>
                  /\ Cardinality(RecordsOf(e)) = 1
                  /\ \A j \in RecordsOf(e) :
                        /\ attempts[j].path =
                              join(join(Runs, <<Name("A", "")>>), <<Name("log", "csv")>>)
                        /\ \E k \in 1..Len(sources) :
                              sources[k].data_source_path = attempts[j].path

====
